---- MODULE Spec2Model ----
(***************************************************************************)
(* A model of cmdy (src/src/main.rs): a command-runner CLI that stores     *)
(* named command sets in config.json, runs them in a chosen directory and  *)
(* appends a line to cmdy.log for every set that ran to completion.        *)
(*                                                                         *)
(* Strings typed by the user (directories, command set names, command      *)
(* lines) are sequences of one-character strings, so that split(',') and   *)
(* trim() can be computed.  A file is a sequence of items: the tokens of a *)
(* JSON document, or the lines of the log.  Every invocation of the        *)
(* program is a process p; an action is the code an invocation executes    *)
(* between two blocking points (a prompt, a sleep, a join) and holds at    *)
(* most one access to the file system.                                     *)
(***************************************************************************)
EXTENDS Integers, Sequences, FiniteSets, TLC

VARIABLES
    fs,                 \* the files in the working directory of the invocations
    launched,           \* number of invocations started so far
    fs0,                \* fs0[p]: the files as they were when invocation p started
    pc,                 \* pc[p]: where invocation p stands
    args,               \* args[p]: std::env::args() of invocation p
    config_data,        \* config_data[p]: the text load_config read (main.rs:25)
    config,             \* config[p]: the in-memory Config
    directory,          \* directory[p]: the working directory chosen in run()
    command_set_name,   \* command_set_name[p]: the name chosen or typed in run()
    set,                \* set[p]: the CommandSet handed to execute_commands
    idx,                \* idx[p]: position of `cmd` in the for loop of execute_commands
    child,              \* child[p]: the subprocess of the special-cased command
    spinner,            \* spinner[p]: the live spinner threads, by the position that spawned them
    out                 \* out[p]: the lines on the terminal of invocation p

vars == <<fs, launched, fs0, pc, args, config_data, config, directory,
          command_set_name, set, idx, child, spinner, out>>

locals == <<args, config_data, config, directory, command_set_name, set, idx,
            child, spinner, out>>

----------------------------------------------------------------------------
(* Bounds *)

Procs == {1, 2}

MaxInvocations == 2

MaxTicks == 2

\* longest sequence of directories, and of command sets, in a Config handed
\* to save_config
MaxStored == 2

\* longest text typed at the prompt for the commands
MaxInput == 4

\* most commands in a set handed to execute_commands alone
MaxCommands == 2

----------------------------------------------------------------------------
(* Constants of the program *)

CONFIG_FILE == "config.json"

LOG_FILE == "cmdy.log"

BACKUP_FILE == "backup.json"

NpmRunDev == <<"n", "p", "m", " ", "r", "u", "n", " ", "d", "e", "v">>

Glyphs == <<"|", "/", "-", "\\">>

CurrentDir == <<"c", "w", "d">>

----------------------------------------------------------------------------
(* Files *)

NoFile == [exists |-> FALSE, data |-> <<>>]

File(items) == [exists |-> TRUE, data |-> items]

P(c) == [k |-> c]

KeyTok(n) == [k |-> "key", name |-> n]

StrTok(s) == [k |-> "str", s |-> s]

Config(dirs, sets) == [directories |-> dirs, command_sets |-> sets]

CommandSet(n, cmds) == [name |-> n, commands |-> cmds]

EmptyConfig == Config(<<>>, <<>>)

NoSet == CommandSet(<<>>, <<>>)

----------------------------------------------------------------------------
(* serde_json: the document as a sequence of tokens *)

RECURSIVE Flatten(_)
Flatten(ss) == IF ss = <<>> THEN <<>> ELSE Head(ss) \o Flatten(Tail(ss))

SerStrings(ss) ==
    <<P("[")>> \o [i \in 1..Len(ss) |-> StrTok(ss[i])] \o <<P("]")>>

SerSet(cs) ==
    <<P("{"), KeyTok("name"), StrTok(cs.name), KeyTok("commands")>>
        \o SerStrings(cs.commands) \o <<P("}")>>

SerSets(sets) ==
    <<P("[")>> \o Flatten([i \in 1..Len(sets) |-> SerSet(sets[i])]) \o <<P("]")>>

to_string_pretty(c) ==
    <<P("{"), KeyTok("directories")>> \o SerStrings(c.directories)
        \o <<KeyTok("command_sets")>> \o SerSets(c.command_sets) \o <<P("}")>>

\* the document load_config substitutes for a config file it cannot read
DefaultText ==
    <<P("{"), KeyTok("directories"), P("["), P("]"),
      KeyTok("command_sets"), P("["), P("]"), P("}")>>

\* the result of a parsing step: the value read and the tokens left
Ok(v, rest) == [ok |-> TRUE, val |-> v, rest |-> rest]

Err == [ok |-> FALSE, val |-> <<>>, rest |-> <<>>]

At(toks, kind) == toks # <<>> /\ Head(toks).k = kind

\* the items of an array collected last first
RECURSIVE ParseStrItems_Prepend(_, _)
ParseStrItems_Prepend(toks, acc) ==
    IF At(toks, "]") THEN Ok(acc, Tail(toks))
    ELSE IF At(toks, "str")
         THEN ParseStrItems_Prepend(Tail(toks), <<Head(toks).s>> \o acc)
    ELSE Err

RECURSIVE ParseStrItems(_, _)
ParseStrItems(toks, acc) ==
    IF At(toks, "]") THEN Ok(acc, Tail(toks))
    ELSE IF At(toks, "str") THEN ParseStrItems(Tail(toks), Append(acc, Head(toks).s))
    ELSE Err

ParseStrings(toks) ==
    IF At(toks, "[") THEN ParseStrItems(Tail(toks), <<>>) ELSE Err

\* the fields of an object, in any order; f holds those read so far.
\* A field that is missing or given twice is an error, as with serde's derive.
RECURSIVE ParseSetFields(_, _)
ParseSetFields(toks, f) ==
    IF At(toks, "}") THEN
        IF DOMAIN f = {"name", "commands"}
        THEN Ok(CommandSet(f.name, f.commands), Tail(toks)) ELSE Err
    ELSE IF At(toks, "key") /\ Head(toks).name \notin DOMAIN f THEN
        IF Head(toks).name = "name" THEN
            IF At(Tail(toks), "str")
            THEN ParseSetFields(Tail(Tail(toks)), f @@ ("name" :> Head(Tail(toks)).s))
            ELSE Err
        ELSE IF Head(toks).name = "commands" THEN
            LET r == ParseStrings(Tail(toks)) IN
            IF r.ok THEN ParseSetFields(r.rest, f @@ ("commands" :> r.val)) ELSE Err
        ELSE Err
    ELSE Err

ParseSet(toks) ==
    IF At(toks, "{") THEN ParseSetFields(Tail(toks), <<>>) ELSE Err

RECURSIVE ParseSetItems(_, _)
ParseSetItems(toks, acc) ==
    IF At(toks, "]") THEN Ok(acc, Tail(toks))
    ELSE LET r == ParseSet(toks) IN
         IF r.ok THEN ParseSetItems(r.rest, Append(acc, r.val)) ELSE Err

ParseSets(toks) ==
    IF At(toks, "[") THEN ParseSetItems(Tail(toks), <<>>) ELSE Err

RECURSIVE ParseConfigFields(_, _)
ParseConfigFields(toks, f) ==
    IF At(toks, "}") THEN
        IF DOMAIN f = {"directories", "command_sets"}
        THEN Ok(Config(f.directories, f.command_sets), Tail(toks)) ELSE Err
    ELSE IF At(toks, "key") /\ Head(toks).name \notin DOMAIN f THEN
        IF Head(toks).name = "directories" THEN
            LET r == ParseStrings(Tail(toks)) IN
            IF r.ok THEN ParseConfigFields(r.rest, f @@ ("directories" :> r.val)) ELSE Err
        ELSE IF Head(toks).name = "command_sets" THEN
            LET r == ParseSets(Tail(toks)) IN
            IF r.ok THEN ParseConfigFields(r.rest, f @@ ("command_sets" :> r.val)) ELSE Err
        ELSE Err
    ELSE Err

\* serde_json::from_str::<Config>: one object and nothing after it
from_str(toks) ==
    IF At(toks, "{")
    THEN LET r == ParseConfigFields(Tail(toks), <<>>) IN
         IF r.ok /\ r.rest = <<>> THEN r ELSE Err
    ELSE Err

\* read_to_string without the default: a missing file reads as the empty text
ReadConfigData_NoDefault(files) == files[CONFIG_FILE].data

\* fs::read_to_string(CONFIG_FILE).unwrap_or_else(|_| default)
ReadConfigData(files) ==
    IF files[CONFIG_FILE].exists THEN files[CONFIG_FILE].data ELSE DefaultText

\* fs::write(path, data): creates or truncates the file
WriteFile(files, path, data) == [files EXCEPT ![path] = File(data)]

\* save_config that reads the file again and keeps what it finds there
save_config_Merge(files, c) ==
    LET r == from_str(IF files[CONFIG_FILE].exists
                      THEN files[CONFIG_FILE].data ELSE <<>>)
        old == IF r.ok THEN r.val ELSE Config(<<>>, <<>>)
        dirs == SelectSeq(old.directories,
                          LAMBDA d : \A i \in DOMAIN c.directories : c.directories[i] # d)
        sets == SelectSeq(old.command_sets,
                          LAMBDA x : \A i \in DOMAIN c.command_sets : c.command_sets[i].name # x.name)
    IN WriteFile(files, CONFIG_FILE,
                 to_string_pretty(Config(dirs \o c.directories, sets \o c.command_sets)))

\* what save_config leaves in the file system
save_config(files, c) == WriteFile(files, CONFIG_FILE, to_string_pretty(c))

\* the file opened with truncate(true) in place of append(true)
AppendFile_Truncate(files, path, items) ==
    [files EXCEPT ![path] = File(items)]

\* OpenOptions::new().create(true).append(true) ... write_all
AppendFile(files, path, items) ==
    [files EXCEPT ![path] = File(files[path].data \o items)]

LogEntry(cs) ==
    [k |-> "line", time |-> "%Y-%m-%d %H:%M:%S", executed |-> cs.name]

log_execution(files, cs) == AppendFile(files, LOG_FILE, <<LogEntry(cs)>>)

----------------------------------------------------------------------------
(* str::split(',') and str::trim *)

IsWhitespace(c) == c \in {" ", "\t", "\n"}

RECURSIVE trim_start(_)
trim_start(s) ==
    IF s # <<>> /\ IsWhitespace(Head(s)) THEN trim_start(Tail(s)) ELSE s

RECURSIVE trim_end(_)
trim_end(s) ==
    IF s # <<>> /\ IsWhitespace(s[Len(s)])
    THEN trim_end(SubSeq(s, 1, Len(s) - 1)) ELSE s

trim(s) == trim_end(trim_start(s))

\* split that yields nothing for an empty last piece, as split_terminator does
RECURSIVE SplitFrom_Terminator(_, _)
SplitFrom_Terminator(s, cur) ==
    IF s = <<>> THEN (IF cur = <<>> THEN <<>> ELSE <<cur>>)
    ELSE IF Head(s) = "," THEN <<cur>> \o SplitFrom_Terminator(Tail(s), <<>>)
    ELSE SplitFrom_Terminator(Tail(s), Append(cur, Head(s)))

RECURSIVE SplitFrom(_, _)
SplitFrom(s, cur) ==
    IF s = <<>> THEN <<cur>>
    ELSE IF Head(s) = "," THEN <<cur>> \o SplitFrom(Tail(s), <<>>)
    ELSE SplitFrom(Tail(s), Append(cur, Head(s)))

split(s) == SplitFrom(s, <<>>)

\* commands_input.split(',').map(|s| s.trim().to_string()).collect()
SplitCommands(input) ==
    [i \in 1..Len(split(input)) |-> trim(split(input)[i])]

----------------------------------------------------------------------------
(* Operations on the in-memory config *)

Names(c) == [i \in 1..Len(c.command_sets) |-> c.command_sets[i].name]

\* the test of line 211 on the last stored set alone
HasSet_LastOnly(c, name) ==
    c.command_sets # <<>> /\ c.command_sets[Len(c.command_sets)].name = name

\* config.command_sets.iter().any(|set| set.name == name)
HasSet(c, name) == \E i \in 1..Len(c.command_sets) : c.command_sets[i].name = name

\* config.command_sets.iter().find(|set| set.name == name): the first match
FindSet(c, name) ==
    LET i == CHOOSE i \in 1..Len(c.command_sets) :
                 /\ c.command_sets[i].name = name
                 /\ \A j \in 1..(i - 1) : c.command_sets[j].name # name
    IN c.command_sets[i]

\* retain with the test the wrong way round
RECURSIVE Retain_KeepMatching(_, _)
Retain_KeepMatching(sets, name) ==
    IF sets = <<>> THEN <<>>
    ELSE IF Head(sets).name = name
         THEN <<Head(sets)>> \o Retain_KeepMatching(Tail(sets), name)
         ELSE Retain_KeepMatching(Tail(sets), name)

\* retain that stops at the first entry it removes
RECURSIVE Retain_FirstOnly(_, _)
Retain_FirstOnly(sets, name) ==
    IF sets = <<>> THEN <<>>
    ELSE IF Head(sets).name # name
         THEN <<Head(sets)>> \o Retain_FirstOnly(Tail(sets), name)
         ELSE Tail(sets)

\* Vec::retain
RECURSIVE Retain(_, _)
Retain(sets, name) ==
    IF sets = <<>> THEN <<>>
    ELSE IF Head(sets).name # name
         THEN <<Head(sets)>> \o Retain(Tail(sets), name)
         ELSE Retain(Tail(sets), name)

----------------------------------------------------------------------------
(* What the user and the environment supply *)

\* the sequences over S of length at most n
SeqsUpTo(S, n) == UNION {[1..k -> S] : k \in 0..n}

D1 == <<"d", "1">>

D2 == <<"d", "2">>

NameA == <<"a">>

NameB == <<"b">>

Ls == <<"l", "s">>

\* the paths typed at "Enter the directory path"
DirInputs == {D2}

\* the names typed at "Enter a new command set name" and after `delete`
NameInputs == {NameA, NameB}

\* the texts typed at "Enter the commands to execute (comma-separated)"
CommandInputs ==
    { NpmRunDev \o <<",", " ">> \o NpmRunDev,
      <<"l", "s", " ", ",">> }

\* the file names typed at the export prompt (backup.json is its default)
ExportInputs == {BACKUP_FILE, LOG_FILE}

\* the command lines the program is started with
ArgInputs ==
    { <<"cmdy">>, <<"cmdy", "run">>, <<"cmdy", "list">>, <<"cmdy", "logs">>,
      <<"cmdy", "delete">>, <<"cmdy", "export">>, <<"cmdy", "help">>,
      <<"cmdy", "--help">> }
    \cup { <<"cmdy", "delete", n>> : n \in NameInputs }

\* those that lead to load_config
ConfigArgInputs == {a \in ArgInputs : Len(a) > 1 /\ a[2] \in {"run", "list", "delete", "export"}}

\* Command::status() / Command::spawn(): Ok(exit 0), Ok(exit != 0), Err
Outcomes == {"success", "failure", "error"}

StoredConfig == Config(<<D1, CurrentDir>>, <<CommandSet(NameA, <<NpmRunDev, Ls>>)>>)

\* the files the first invocation can find: none; a config and a log written
\* by earlier runs; a config file cut short by a crash during fs::write
InitialFiles ==
    { [f \in {CONFIG_FILE, LOG_FILE, BACKUP_FILE} |-> NoFile],
      [f \in {CONFIG_FILE, LOG_FILE, BACKUP_FILE} |->
          IF f = CONFIG_FILE THEN File(to_string_pretty(StoredConfig))
          ELSE IF f = LOG_FILE THEN File(<<LogEntry(CommandSet(NameA, <<>>))>>)
          ELSE NoFile],
      [f \in {CONFIG_FILE, LOG_FILE, BACKUP_FILE} |->
          IF f = CONFIG_FILE THEN File(<<P("{"), KeyTok("directories")>>)
          ELSE NoFile] }

----------------------------------------------------------------------------
(* Initial state *)

NoThreads == [t \in {} |-> 0]

InitLocals ==
    /\ fs0 = [p \in Procs |-> fs]
    /\ pc = [p \in Procs |-> "idle"]
    /\ args = [p \in Procs |-> <<>>]
    /\ config_data = [p \in Procs |-> <<>>]
    /\ config = [p \in Procs |-> EmptyConfig]
    /\ directory = [p \in Procs |-> <<>>]
    /\ command_set_name = [p \in Procs |-> <<>>]
    /\ set = [p \in Procs |-> NoSet]
    /\ idx = [p \in Procs |-> 0]
    /\ child = [p \in Procs |-> "none"]
    /\ spinner = [p \in Procs |-> NoThreads]
    /\ out = [p \in Procs |-> <<>>]

Init ==
    /\ fs \in InitialFiles
    /\ launched = 0
    /\ InitLocals

----------------------------------------------------------------------------
(* Output *)

Line(m) == [msg |-> m]

LineArg(m, a) == [msg |-> m, arg |-> a]

\* dialoguer::Select: the prompt and the index of the item chosen
Selected(prompt, item) == [msg |-> "select", prompt |-> prompt, item |-> item]

\* dialoguer::Input: the prompt and the text typed
Typed(prompt, text) == [msg |-> "input", prompt |-> prompt, text |-> text]

Write(p, lines) == out' = [out EXCEPT ![p] = @ \o lines]

SpinnerLine(glyph) == LineArg("Syncing Obsidian vault...", glyph)

\* print!("\r...") and println!("\r..."): the text starts with a carriage
\* return, so it replaces the spinner line that print! left without a newline
Overwrite(p, line) ==
    out' = [out EXCEPT ![p] =
               IF @ # <<>> /\ @[Len(@)].msg = "Syncing Obsidian vault..."
               THEN SubSeq(@, 1, Len(@) - 1) \o <<line>>
               ELSE @ \o <<line>>]

\* a failed expect()/unwrap() on the main thread: the message is printed and
\* the process ends, its threads with it
Panic(p, m) ==
    /\ pc' = [pc EXCEPT ![p] = "panicked"]
    /\ Write(p, <<LineArg("panic", m)>>)
    /\ spinner' = [spinner EXCEPT ![p] = NoThreads]

----------------------------------------------------------------------------
(* main *)

Free(p) == pc[p] \in {"idle", "done", "panicked"}

\* the user starts the program
Launch(p, a) ==
    /\ Free(p)
    /\ launched < MaxInvocations
    /\ launched' = launched + 1
    /\ fs0' = [fs0 EXCEPT ![p] = fs]
    /\ pc' = [pc EXCEPT ![p] = "main"]
    /\ args' = [args EXCEPT ![p] = a]
    /\ config_data' = [config_data EXCEPT ![p] = <<>>]
    /\ config' = [config EXCEPT ![p] = EmptyConfig]
    /\ directory' = [directory EXCEPT ![p] = <<>>]
    /\ command_set_name' = [command_set_name EXCEPT ![p] = <<>>]
    /\ set' = [set EXCEPT ![p] = NoSet]
    /\ idx' = [idx EXCEPT ![p] = 0]
    /\ child' = [child EXCEPT ![p] = "none"]
    /\ spinner' = [spinner EXCEPT ![p] = NoThreads]
    /\ out' = [out EXCEPT ![p] = <<>>]
    /\ UNCHANGED fs

\* the match without "--help"
Arm_NoDashHelp(a) ==
    IF Len(a) > 1 THEN
        CASE a[2] = "run" -> "run"
          [] a[2] = "list" -> "list"
          [] a[2] = "delete" /\ Len(a) > 2 -> "delete"
          [] a[2] = "export" -> "export"
          [] a[2] = "help" -> "help"
          [] OTHER -> "unknown"
    ELSE "usage"

\* the arm of the match in main that args selects
Arm(a) ==
    IF Len(a) > 1 THEN
        CASE a[2] = "run" -> "run"
          [] a[2] = "list" -> "list"
          [] a[2] = "delete" /\ Len(a) > 2 -> "delete"
          [] a[2] = "export" -> "export"
          [] a[2] \in {"--help", "help"} -> "help"
          [] OTHER -> "unknown"
    ELSE "usage"

\* load_config, up to the expect
load_config(files) == from_str(ReadConfigData(files))

\* main -> one of run, list_commands, delete_command, export_config: each
\* begins with load_config, which panics on a file it cannot parse
MainLoadFails(p) ==
    /\ pc[p] = "main"
    /\ Arm(args[p]) \in {"run", "list", "delete", "export"}
    /\ ~load_config(fs).ok
    /\ config_data' = [config_data EXCEPT ![p] = ReadConfigData(fs)]
    /\ Panic(p, "Failed to parse config file")
    /\ UNCHANGED <<fs, launched, fs0, args, config, directory,
                   command_set_name, set, idx, child>>

\* main -> run, up to the directory menu
MainRun(p) ==
    /\ pc[p] = "main"
    /\ Arm(args[p]) = "run"
    /\ load_config(fs).ok
    /\ config_data' = [config_data EXCEPT ![p] = ReadConfigData(fs)]
    /\ config' = [config EXCEPT ![p] = load_config(fs).val]
    /\ pc' = [pc EXCEPT ![p] = "select_dir"]
    /\ UNCHANGED <<fs, launched, fs0, args, directory, command_set_name,
                   set, idx, child, spinner, out>>

ListLines(c) ==
    [i \in 1..Len(c.command_sets) |->
        [msg |-> "item", n |-> i, name |-> c.command_sets[i].name,
         commands |-> c.command_sets[i].commands]]

\* main -> list_commands
MainList(p) ==
    /\ pc[p] = "main"
    /\ Arm(args[p]) = "list"
    /\ load_config(fs).ok
    /\ config_data' = [config_data EXCEPT ![p] = ReadConfigData(fs)]
    /\ config' = [config EXCEPT ![p] = load_config(fs).val]
    /\ Write(p, <<Line("Stored Command Sets:")>> \o ListLines(load_config(fs).val))
    /\ pc' = [pc EXCEPT ![p] = "done"]
    /\ UNCHANGED <<fs, launched, fs0, args, directory, command_set_name,
                   set, idx, child, spinner>>

\* main -> delete_command, up to the retain
MainDelete(p) ==
    /\ pc[p] = "main"
    /\ Arm(args[p]) = "delete"
    /\ load_config(fs).ok
    /\ config_data' = [config_data EXCEPT ![p] = ReadConfigData(fs)]
    /\ config' = [config EXCEPT ![p] =
                     Config(load_config(fs).val.directories,
                            Retain(load_config(fs).val.command_sets, args[p][3]))]
    /\ pc' = [pc EXCEPT ![p] = "delete_save"]
    /\ UNCHANGED <<fs, launched, fs0, args, directory, command_set_name,
                   set, idx, child, spinner, out>>

\* delete_command: save_config and the message
DeleteSave(p) ==
    /\ pc[p] = "delete_save"
    /\ fs' = save_config(fs, config[p])
    /\ Write(p, <<LineArg("Deleted command set:", args[p][3])>>)
    /\ pc' = [pc EXCEPT ![p] = "done"]
    /\ UNCHANGED <<launched, fs0, args, config_data, config, directory,
                   command_set_name, set, idx, child, spinner>>

\* main -> export_config, up to the prompt for the file name
MainExport(p) ==
    /\ pc[p] = "main"
    /\ Arm(args[p]) = "export"
    /\ load_config(fs).ok
    /\ config_data' = [config_data EXCEPT ![p] = ReadConfigData(fs)]
    /\ config' = [config EXCEPT ![p] = load_config(fs).val]
    /\ pc' = [pc EXCEPT ![p] = "export_prompt"]
    /\ UNCHANGED <<fs, launched, fs0, args, directory, command_set_name,
                   set, idx, child, spinner, out>>

\* export_config: the file name is typed, the config is written to it
ExportWrite(p, file_path) ==
    /\ pc[p] = "export_prompt"
    /\ fs' = WriteFile(fs, file_path, to_string_pretty(config[p]))
    /\ Write(p, <<[msg |-> "input", prompt |-> "Enter the export file name",
                    file |-> file_path],
                   [msg |-> "Configuration exported to", file |-> file_path]>>)
    /\ pc' = [pc EXCEPT ![p] = "done"]
    /\ UNCHANGED <<launched, fs0, args, config_data, config, directory,
                   command_set_name, set, idx, child, spinner>>

HelpLines ==
    <<Line("cmdy CLI - Command Manager"),
      Line("Usage:"),
      Line("  cmdy run    - Run a saved command set"),
      Line("  cmdy list   - List all saved command sets"),
      Line("  cmdy delete <command_name> - Delete a saved command set"),
      Line("  cmdy --help | help - Show this help message")>>

\* main -> help
MainHelp(p) ==
    /\ pc[p] = "main"
    /\ Arm(args[p]) = "help"
    /\ Write(p, HelpLines)
    /\ pc' = [pc EXCEPT ![p] = "done"]
    /\ UNCHANGED <<fs, launched, fs0, args, config_data, config, directory,
                   command_set_name, set, idx, child, spinner>>

\* main: the `_` arm
MainUnknown(p) ==
    /\ pc[p] = "main"
    /\ Arm(args[p]) = "unknown"
    /\ Write(p, <<Line("Unknown command. Use 'cmdy --help' for available commands.")>>)
    /\ pc' = [pc EXCEPT ![p] = "done"]
    /\ UNCHANGED <<fs, launched, fs0, args, config_data, config, directory,
                   command_set_name, set, idx, child, spinner>>

\* main: no argument
MainUsage(p) ==
    /\ pc[p] = "main"
    /\ Arm(args[p]) = "usage"
    /\ Write(p, <<Line("Usage: cmdy <command>. Use 'cmdy --help' for more details.")>>)
    /\ pc' = [pc EXCEPT ![p] = "done"]
    /\ UNCHANGED <<fs, launched, fs0, args, config_data, config, directory,
                   command_set_name, set, idx, child, spinner>>

----------------------------------------------------------------------------
(* run *)

\* the prompt that follows the choice of the directory: the menu of command
\* sets, or, with no stored set, the prompt for a new name
AfterDirectory(c) == IF Names(c) = <<>> THEN "enter_name" ELSE "select_set"

\* the directory menu with item 0 taken for the first stored directory
SelectDirectory_OffByOne(p, selection) ==
    /\ pc[p] = "select_dir"
    /\ selection \in 0..(Len(config[p].directories) + 1)
    /\ IF selection = Len(config[p].directories) + 1 THEN
            /\ directory' = directory
            /\ pc' = [pc EXCEPT ![p] = "enter_dir"]
       ELSE IF selection = 0 /\ config[p].directories = <<>> THEN
            /\ directory' = [directory EXCEPT ![p] = CurrentDir]
            /\ pc' = [pc EXCEPT ![p] = AfterDirectory(config[p])]
       ELSE
            /\ directory' = [directory EXCEPT ![p] =
                                config[p].directories[IF selection = 0 THEN 1 ELSE selection]]
            /\ pc' = [pc EXCEPT ![p] = AfterDirectory(config[p])]
    /\ Write(p, <<Selected("directory", selection)>>)
    /\ UNCHANGED <<fs, launched, fs0, args, config_data, config,
                   command_set_name, set, idx, child, spinner>>

\* the directory menu with config.directories[selection] for a stored item:
\* the item after the one chosen, and past the end for the last one
SelectDirectory_NoOffset(p, selection) ==
    /\ pc[p] = "select_dir"
    /\ selection \in 0..(Len(config[p].directories) + 1)
    /\ IF selection = 0 THEN
            /\ directory' = [directory EXCEPT ![p] = CurrentDir]
            /\ pc' = [pc EXCEPT ![p] = AfterDirectory(config[p])]
            /\ Write(p, <<Selected("directory", selection)>>)
            /\ UNCHANGED spinner
       ELSE IF selection = Len(config[p].directories) + 1 THEN
            /\ directory' = directory
            /\ pc' = [pc EXCEPT ![p] = "enter_dir"]
            /\ Write(p, <<Selected("directory", selection)>>)
            /\ UNCHANGED spinner
       ELSE IF selection = Len(config[p].directories) THEN
            /\ directory' = directory
            /\ pc' = [pc EXCEPT ![p] = "panicked"]
            /\ Write(p, <<Selected("directory", selection),
                          LineArg("panic", "index out of bounds")>>)
            /\ UNCHANGED spinner
       ELSE
            /\ directory' = [directory EXCEPT ![p] = config[p].directories[selection + 1]]
            /\ pc' = [pc EXCEPT ![p] = AfterDirectory(config[p])]
            /\ Write(p, <<Selected("directory", selection)>>)
            /\ UNCHANGED spinner
    /\ UNCHANGED <<fs, launched, fs0, args, config_data, config,
                   command_set_name, set, idx, child>>

\* the directory menu: "Current Directory", the stored ones, "Enter New Directory"
SelectDirectory(p, selection) ==
    /\ pc[p] = "select_dir"
    /\ selection \in 0..(Len(config[p].directories) + 1)
    /\ IF selection = 0 THEN
            /\ directory' = [directory EXCEPT ![p] = CurrentDir]
            /\ pc' = [pc EXCEPT ![p] = AfterDirectory(config[p])]
       ELSE IF selection = Len(config[p].directories) + 1 THEN
            /\ directory' = directory
            /\ pc' = [pc EXCEPT ![p] = "enter_dir"]
       ELSE
            \* config.directories[selection - 1], counted from 0
            /\ directory' = [directory EXCEPT ![p] = config[p].directories[selection]]
            /\ pc' = [pc EXCEPT ![p] = AfterDirectory(config[p])]
    /\ Write(p, <<Selected("directory", selection)>>)
    /\ UNCHANGED <<fs, launched, fs0, args, config_data, config,
                   command_set_name, set, idx, child, spinner>>

\* EnterDirectory without the save_config of line 181
EnterDirectory_NoSave(p, new_dir) ==
    /\ pc[p] = "enter_dir"
    /\ LET c == Config(Append(config[p].directories, new_dir), config[p].command_sets)
       IN /\ config' = [config EXCEPT ![p] = c]
          /\ fs' = fs
          /\ pc' = [pc EXCEPT ![p] = AfterDirectory(c)]
    /\ directory' = [directory EXCEPT ![p] = new_dir]
    /\ Write(p, <<Typed("Enter the directory path", new_dir)>>)
    /\ UNCHANGED <<launched, fs0, args, config_data, command_set_name,
                   set, idx, child, spinner>>

\* "Enter the directory path": push, save_config
EnterDirectory(p, new_dir) ==
    /\ pc[p] = "enter_dir"
    /\ LET c == Config(Append(config[p].directories, new_dir), config[p].command_sets)
       IN /\ config' = [config EXCEPT ![p] = c]
          /\ fs' = save_config(fs, c)
          /\ pc' = [pc EXCEPT ![p] = AfterDirectory(c)]
    /\ directory' = [directory EXCEPT ![p] = new_dir]
    /\ Write(p, <<Typed("Enter the directory path", new_dir)>>)
    /\ UNCHANGED <<launched, fs0, args, config_data, command_set_name,
                   set, idx, child, spinner>>

\* run, line 226, and the first line of execute_commands
StartExecute(p, c, name, prompted) ==
    /\ set' = [set EXCEPT ![p] = FindSet(c, name)]
    /\ idx' = [idx EXCEPT ![p] = 1]
    /\ Write(p, prompted \o <<LineArg("Executing command set:", name)>>)
    /\ pc' = [pc EXCEPT ![p] = "exec"]

\* the menu of command sets: the stored names, then "Create new command set"
SelectCommandSet(p, selection) ==
    /\ pc[p] = "select_set"
    /\ selection \in 0..Len(Names(config[p]))
    /\ IF selection = Len(Names(config[p])) THEN
            /\ pc' = [pc EXCEPT ![p] = "enter_name"]
            /\ Write(p, <<Selected("command set", selection)>>)
            /\ UNCHANGED <<command_set_name, set, idx>>
       ELSE
            \* command_set_names[selection], counted from 0
            /\ command_set_name' =
                  [command_set_name EXCEPT ![p] = Names(config[p])[selection + 1]]
            /\ StartExecute(p, config[p], Names(config[p])[selection + 1],
                            <<Selected("command set", selection)>>)
    /\ UNCHANGED <<fs, launched, fs0, args, config_data, config,
                   directory, child, spinner>>

\* EnterName without the test of line 211: a typed name is always a new set
EnterName_AlwaysCreate(p, name) ==
    /\ pc[p] = "enter_name"
    /\ command_set_name' = [command_set_name EXCEPT ![p] = name]
    /\ Write(p, <<Typed("Enter a new command set name", name),
                  Line("Creating a new command set.")>>)
    /\ pc' = [pc EXCEPT ![p] = "enter_commands"]
    /\ UNCHANGED <<set, idx>>
    /\ UNCHANGED <<fs, launched, fs0, args, config_data, config,
                   directory, child, spinner>>

\* "Enter a new command set name", then the test of line 211
EnterName(p, name) ==
    /\ pc[p] = "enter_name"
    /\ command_set_name' = [command_set_name EXCEPT ![p] = name]
    /\ IF ~HasSet(config[p], name) THEN
            /\ Write(p, <<Typed("Enter a new command set name", name),
                          Line("Creating a new command set.")>>)
            /\ pc' = [pc EXCEPT ![p] = "enter_commands"]
            /\ UNCHANGED <<set, idx>>
       ELSE StartExecute(p, config[p], name,
                         <<Typed("Enter a new command set name", name)>>)
    /\ UNCHANGED <<fs, launched, fs0, args, config_data, config,
                   directory, child, spinner>>

\* EnterCommands without the save_config of line 223
EnterCommands_NoSave(p, commands_input) ==
    /\ pc[p] = "enter_commands"
    /\ LET c == Config(config[p].directories,
                       Append(config[p].command_sets,
                              CommandSet(command_set_name[p],
                                         SplitCommands(commands_input))))
       IN /\ config' = [config EXCEPT ![p] = c]
          /\ fs' = fs
          /\ StartExecute(p, c, command_set_name[p],
                          <<Typed("Enter the commands to execute", commands_input)>>)
    /\ UNCHANGED <<launched, fs0, args, config_data, directory,
                   command_set_name, child, spinner>>

\* "Enter the commands to execute (comma-separated)": push, save_config
EnterCommands(p, commands_input) ==
    /\ pc[p] = "enter_commands"
    /\ LET c == Config(config[p].directories,
                       Append(config[p].command_sets,
                              CommandSet(command_set_name[p],
                                         SplitCommands(commands_input))))
       IN /\ config' = [config EXCEPT ![p] = c]
          /\ fs' = save_config(fs, c)
          /\ StartExecute(p, c, command_set_name[p],
                          <<Typed("Enter the commands to execute", commands_input)>>)
    /\ UNCHANGED <<launched, fs0, args, config_data, directory,
                   command_set_name, child, spinner>>

----------------------------------------------------------------------------
(* execute_commands *)

InLoop(p) == pc[p] = "exec" /\ idx[p] <= Len(set[p].commands)

Cmd(p) == set[p].commands[idx[p]]

\* RunForeground without the return of line 77
RunForeground_NoReturn(p, outcome) ==
    /\ InLoop(p)
    /\ Cmd(p) # NpmRunDev
    /\ IF outcome = "success" THEN
            /\ Write(p, <<LineArg("Executing:", Cmd(p))>>)
            /\ idx' = [idx EXCEPT ![p] = @ + 1]
            /\ UNCHANGED <<pc, spinner>>
       ELSE IF outcome = "failure" THEN
            /\ Write(p, <<LineArg("Executing:", Cmd(p)),
                          LineArg("Command failed:", Cmd(p))>>)
            /\ idx' = [idx EXCEPT ![p] = @ + 1]
            /\ UNCHANGED <<pc, spinner>>
       ELSE
            /\ pc' = [pc EXCEPT ![p] = "panicked"]
            /\ Write(p, <<LineArg("Executing:", Cmd(p)),
                          LineArg("panic", "Failed to execute command")>>)
            /\ UNCHANGED <<idx, spinner>>
    /\ UNCHANGED <<fs, launched, fs0, args, config_data, config, directory,
                   command_set_name, set, child>>

\* foreground mode: command.status()
RunForeground(p, outcome) ==
    /\ InLoop(p)
    /\ Cmd(p) # NpmRunDev
    /\ IF outcome = "success" THEN
            /\ Write(p, <<LineArg("Executing:", Cmd(p))>>)
            /\ idx' = [idx EXCEPT ![p] = @ + 1]
            /\ UNCHANGED <<pc, spinner>>
       ELSE IF outcome = "failure" THEN
            /\ Write(p, <<LineArg("Executing:", Cmd(p)),
                          LineArg("Command failed:", Cmd(p))>>)
            /\ pc' = [pc EXCEPT ![p] = "done"]
            /\ UNCHANGED <<idx, spinner>>
       ELSE
            /\ pc' = [pc EXCEPT ![p] = "panicked"]
            /\ Write(p, <<LineArg("Executing:", Cmd(p)),
                          LineArg("panic", "Failed to execute command")>>)
            /\ UNCHANGED <<idx, spinner>>
    /\ UNCHANGED <<fs, launched, fs0, args, config_data, config, directory,
                   command_set_name, set, child>>

Thread(st, i, inbox) == [st |-> st, i |-> i, inbox |-> inbox]

\* bounded mode: command.spawn(), mpsc::channel(), thread::spawn, then the sleep
SpawnNpm(p, ok) ==
    /\ InLoop(p)
    /\ Cmd(p) = NpmRunDev
    /\ IF ok THEN
            /\ Write(p, <<LineArg("Executing:", Cmd(p))>>)
            /\ child' = [child EXCEPT ![p] = "running"]
            /\ spinner' = [spinner EXCEPT ![p] = @ @@ (idx[p] :> Thread("poll", 0, 0))]
            /\ pc' = [pc EXCEPT ![p] = "sleep"]
       ELSE
            /\ pc' = [pc EXCEPT ![p] = "panicked"]
            /\ Write(p, <<LineArg("Executing:", Cmd(p)),
                          LineArg("panic", "Failed to start process")>>)
            /\ UNCHANGED <<child, spinner>>
    /\ UNCHANGED <<fs, launched, fs0, args, config_data, config, directory,
                   command_set_name, set, idx>>

\* the subprocess ends by itself during the window
ChildExits(p, status) ==
    /\ child[p] = "running"
    /\ pc[p] = "sleep"
    /\ child' = [child EXCEPT ![p] = status]
    /\ UNCHANGED <<fs, launched, fs0, pc, args, config_data, config,
                   directory, command_set_name, set, idx, spinner, out>>

\* KillChild that goes on without killing the subprocess
KillChild_NoKill(p, ok) ==
    /\ pc[p] = "sleep"
    /\ IF ok THEN
            /\ pc' = [pc EXCEPT ![p] = "send"]
            /\ UNCHANGED <<child, spinner, out>>
       ELSE
            /\ Panic(p, "Failed to stop npm run dev")
            /\ UNCHANGED child
    /\ UNCHANGED <<fs, launched, fs0, args, config_data, config, directory,
                   command_set_name, set, idx>>

\* KillChild that looks at how the subprocess ended, as foreground mode does
KillChild_CheckStatus(p, ok) ==
    /\ pc[p] = "sleep"
    /\ IF ~ok THEN
            /\ Panic(p, "Failed to stop npm run dev")
            /\ UNCHANGED child
       ELSE IF child[p] = "exited_err" THEN
            /\ Write(p, <<LineArg("Command failed:", Cmd(p))>>)
            /\ pc' = [pc EXCEPT ![p] = "done"]
            /\ spinner' = [spinner EXCEPT ![p] = NoThreads]
            /\ UNCHANGED child
       ELSE
            /\ child' = [child EXCEPT ![p] = IF @ = "running" THEN "killed" ELSE @]
            /\ pc' = [pc EXCEPT ![p] = "send"]
            /\ UNCHANGED <<spinner, out>>
    /\ UNCHANGED <<fs, launched, fs0, args, config_data, config, directory,
                   command_set_name, set, idx>>

\* the sleep of 10 s is over: child.kill().expect(...)
KillChild(p, ok) ==
    /\ pc[p] = "sleep"
    /\ IF ok THEN
            \* SIGKILL ends a running subprocess and leaves one that has
            \* exited as it is
            /\ child' = [child EXCEPT ![p] = IF @ = "running" THEN "killed" ELSE @]
            /\ pc' = [pc EXCEPT ![p] = "send"]
            /\ UNCHANGED <<spinner, out>>
       ELSE
            /\ Panic(p, "Failed to stop npm run dev")
            /\ UNCHANGED child
    /\ UNCHANGED <<fs, launched, fs0, args, config_data, config, directory,
                   command_set_name, set, idx>>

\* SendStop that goes on to the join with nothing sent
SendStop_NoSignal(p) ==
    /\ pc[p] = "send"
    /\ pc' = [pc EXCEPT ![p] = "join"]
    /\ UNCHANGED <<spinner, out>>
    /\ UNCHANGED <<fs, launched, fs0, args, config_data, config, directory,
                   command_set_name, set, idx, child>>

\* tx.send(()).unwrap(): an error when the receiver is gone
SendStop(p) ==
    /\ pc[p] = "send"
    /\ IF spinner[p][idx[p]].st # "finished" THEN
            /\ spinner' = [spinner EXCEPT ![p][idx[p]].inbox = @ + 1]
            /\ pc' = [pc EXCEPT ![p] = "join"]
            /\ UNCHANGED out
       ELSE Panic(p, "sending on a closed channel")
    /\ UNCHANGED <<fs, launched, fs0, args, config_data, config, directory,
                   command_set_name, set, idx, child>>

\* Join that drops the handle of the thread instead of waiting for its end
Join_Detached(p) ==
    /\ pc[p] = "join"
    /\ UNCHANGED spinner
    /\ Write(p, <<Line("npm run dev stopped after pulling the vault.")>>)
    /\ idx' = [idx EXCEPT ![p] = @ + 1]
    /\ pc' = [pc EXCEPT ![p] = "exec"]
    \* `child` goes out of scope at the end of the block
    /\ child' = [child EXCEPT ![p] = "none"]
    /\ UNCHANGED <<fs, launched, fs0, args, config_data, config, directory,
                   command_set_name, set>>

\* spinner_thread.join().unwrap(), the message, and on to the next command
Join(p) ==
    /\ pc[p] = "join"
    /\ spinner[p][idx[p]].st = "finished"
    /\ spinner' = [spinner EXCEPT ![p] =
                      [t \in DOMAIN spinner[p] \ {idx[p]} |-> spinner[p][t]]]
    /\ Write(p, <<Line("npm run dev stopped after pulling the vault.")>>)
    /\ idx' = [idx EXCEPT ![p] = @ + 1]
    /\ pc' = [pc EXCEPT ![p] = "exec"]
    \* `child` goes out of scope at the end of the block
    /\ child' = [child EXCEPT ![p] = "none"]
    /\ UNCHANGED <<fs, launched, fs0, args, config_data, config, directory,
                   command_set_name, set>>

\* the spinner thread: try_recv() is an error, one glyph, sleep 200 ms
SpinnerTick(p, t) ==
    /\ t \in DOMAIN spinner[p]
    /\ spinner[p][t].st = "poll"
    /\ spinner[p][t].inbox = 0
    /\ spinner[p][t].i < MaxTicks
    /\ Overwrite(p, SpinnerLine(Glyphs[(spinner[p][t].i % 4) + 1]))
    /\ spinner' = [spinner EXCEPT ![p][t].i = @ + 1]
    /\ UNCHANGED <<fs, launched, fs0, pc, args, config_data, config,
                   directory, command_set_name, set, idx, child>>

\* the spinner thread: try_recv() is Ok, the loop ends, the thread ends
SpinnerStop(p, t) ==
    /\ t \in DOMAIN spinner[p]
    /\ spinner[p][t].st = "poll"
    /\ spinner[p][t].inbox > 0
    /\ Overwrite(p, Line("Sync complete!"))
    /\ spinner' = [spinner EXCEPT ![p][t] = Thread("finished", @.i, @.inbox - 1)]
    /\ UNCHANGED <<fs, launched, fs0, pc, args, config_data, config,
                   directory, command_set_name, set, idx, child>>

\* LogExecution placed inside the loop, before the last command
LogExecution_Early(p) ==
    /\ pc[p] = "exec"
    /\ idx[p] >= Len(set[p].commands)
    /\ fs' = log_execution(fs, set[p])
    /\ pc' = [pc EXCEPT ![p] = "done"]
    /\ UNCHANGED <<launched, fs0, args, config_data, config, directory,
                   command_set_name, set, idx, child, spinner, out>>

\* after the loop: log_execution(set)
LogExecution(p) ==
    /\ pc[p] = "exec"
    /\ idx[p] > Len(set[p].commands)
    /\ fs' = log_execution(fs, set[p])
    /\ pc' = [pc EXCEPT ![p] = "done"]
    /\ UNCHANGED <<launched, fs0, args, config_data, config, directory,
                   command_set_name, set, idx, child, spinner, out>>

----------------------------------------------------------------------------
(* Specifications *)

\* the steps of the invocations that read or write the config file, and the
\* prompts between them
ConfigStep(p) ==
    \/ MainLoadFails(p)
    \/ MainRun(p)
    \/ MainList(p)
    \/ MainDelete(p)
    \/ DeleteSave(p)
    \/ MainExport(p)
    \/ \E f \in ExportInputs : ExportWrite(p, f)
    \/ \E s \in 0..(Len(config[p].directories) + 1) : SelectDirectory(p, s)
    \/ \E d \in DirInputs : EnterDirectory(p, d)
    \/ \E s \in 0..Len(Names(config[p])) : SelectCommandSet(p, s)
    \/ \E n \in NameInputs : EnterName(p, n)
    \/ \E c \in CommandInputs : EnterCommands(p, c)

\* the steps of execute_commands, and the arms of main that touch no file
OtherStep(p) ==
    \/ MainHelp(p)
    \/ MainUnknown(p)
    \/ MainUsage(p)
    \/ \E o \in Outcomes : RunForeground(p, o)
    \/ \E ok \in BOOLEAN : SpawnNpm(p, ok)
    \/ \E st \in {"exited_ok", "exited_err"} : ChildExits(p, st)
    \/ \E ok \in BOOLEAN : KillChild(p, ok)
    \/ SendStop(p)
    \/ Join(p)
    \/ \E t \in DOMAIN spinner[p] : SpinnerTick(p, t)
    \/ \E t \in DOMAIN spinner[p] : SpinnerStop(p, t)
    \/ LogExecution(p)

\* invocations one after the other: the program is started again only when
\* the invocation before it has ended
Next ==
    \/ \E a \in ArgInputs : Launch(1, a)
    \/ ConfigStep(1)
    \/ OtherStep(1)

Spec == Init /\ [][Next]_vars

\* invocations that overlap in time, followed up to the call of
\* execute_commands, which neither reads nor writes the config file
NextConcurrent ==
    \E p \in Procs :
        \/ \E a \in ConfigArgInputs : Launch(p, a)
        \/ ConfigStep(p)

SpecConcurrent == Init /\ [][NextConcurrent]_vars

----------------------------------------------------------------------------
(* execute_commands on any command set, under a fair scheduler *)

\* the command sets handed to execute_commands: up to MaxCommands commands,
\* each the special-cased one or another
ExecuteSets ==
    {CommandSet(NameA, c) : c \in SeqsUpTo({NpmRunDev, Ls}, MaxCommands)}

\* `cmdy run` with a config file that holds one command set: the current
\* directory and the set were chosen, execute_commands begins
InitExecute ==
    \E cs \in ExecuteSets :
        /\ fs = [f \in {CONFIG_FILE, LOG_FILE, BACKUP_FILE} |->
                    IF f = CONFIG_FILE
                    THEN File(to_string_pretty(Config(<<>>, <<cs>>))) ELSE NoFile]
        /\ launched = 1
        /\ fs0 = [p \in Procs |-> fs]
        /\ pc = [p \in Procs |-> IF p = 1 THEN "exec" ELSE "idle"]
        /\ args = [p \in Procs |-> IF p = 1 THEN <<"cmdy", "run">> ELSE <<>>]
        /\ config_data = [p \in Procs |->
                             IF p = 1 THEN to_string_pretty(Config(<<>>, <<cs>>)) ELSE <<>>]
        /\ config = [p \in Procs |-> IF p = 1 THEN Config(<<>>, <<cs>>) ELSE EmptyConfig]
        /\ directory = [p \in Procs |-> IF p = 1 THEN CurrentDir ELSE <<>>]
        /\ command_set_name = [p \in Procs |-> IF p = 1 THEN cs.name ELSE <<>>]
        /\ set = [p \in Procs |-> IF p = 1 THEN cs ELSE NoSet]
        /\ idx = [p \in Procs |-> IF p = 1 THEN 1 ELSE 0]
        /\ child = [p \in Procs |-> "none"]
        /\ spinner = [p \in Procs |-> NoThreads]
        /\ out = [p \in Procs |->
                     IF p = 1 THEN <<Selected("directory", 0),
                                     Selected("command set", 0),
                                     LineArg("Executing command set:", cs.name)>>
                     ELSE <<>>]

NextExecute ==
    \/ \E o \in Outcomes : RunForeground(1, o)
    \/ \E ok \in BOOLEAN : SpawnNpm(1, ok)
    \/ \E st \in {"exited_ok", "exited_err"} : ChildExits(1, st)
    \/ \E ok \in BOOLEAN : KillChild(1, ok)
    \/ SendStop(1)
    \/ Join(1)
    \/ \E t \in DOMAIN spinner[1] : SpinnerTick(1, t)
    \/ \E t \in DOMAIN spinner[1] : SpinnerStop(1, t)
    \/ LogExecution(1)

\* the scheduler lets every thread that can run take its next step: the sleep
\* of the main thread ends, its send and its join are executed when they can
\* be, and the spinner thread gets to the poll that finds the stop signal
SpecFair ==
    /\ InitExecute
    /\ [][NextExecute]_vars
    /\ WF_vars(\E ok \in BOOLEAN : KillChild(1, ok))
    /\ WF_vars(SendStop(1))
    /\ WF_vars(Join(1))
    /\ WF_vars(\E t \in DOMAIN spinner[1] : SpinnerStop(1, t))

----------------------------------------------------------------------------
(* save_config and load_config on any Config *)

\* the values a caller can hand to save_config: any directories, any command
\* sets (names may repeat, a set may have no command, a command may be empty)
StoredSets ==
    {CommandSet(n, c) : n \in NameInputs, c \in {<<>>, <<Ls>>, <<NpmRunDev, <<>>>>}}

StoredConfigs ==
    {Config(d, s) : d \in SeqsUpTo({D1, D2}, MaxStored),
                    s \in SeqsUpTo(StoredSets, MaxStored)}

\* invocation 1 holds a Config and is about to call save_config
InitStore ==
    /\ fs \in InitialFiles
    /\ launched = 0
    /\ fs0 = [p \in Procs |-> fs]
    /\ pc = [p \in Procs |-> IF p = 1 THEN "save_config" ELSE "idle"]
    /\ args = [p \in Procs |-> <<>>]
    /\ config_data = [p \in Procs |-> <<>>]
    /\ config \in {[p \in Procs |-> IF p = 1 THEN c ELSE EmptyConfig] : c \in StoredConfigs}
    /\ directory = [p \in Procs |-> <<>>]
    /\ command_set_name = [p \in Procs |-> <<>>]
    /\ set = [p \in Procs |-> NoSet]
    /\ idx = [p \in Procs |-> 0]
    /\ child = [p \in Procs |-> "none"]
    /\ spinner = [p \in Procs |-> NoThreads]
    /\ out = [p \in Procs |-> <<>>]

\* save_config(&config), alone
SaveConfig(p) ==
    /\ pc[p] = "save_config"
    /\ fs' = save_config(fs, config[p])
    /\ pc' = [pc EXCEPT ![p] = "done"]
    /\ UNCHANGED <<launched, fs0, args, config_data, config, directory,
                   command_set_name, set, idx, child, spinner, out>>

\* the save, then one invocation that loads what was saved: list or delete
NextStore ==
    \/ SaveConfig(1)
    \/ /\ pc[1] = "done"
       /\ pc[2] = "idle"
       /\ \E a \in {<<"cmdy", "list">>} \cup {<<"cmdy", "delete", n>> : n \in NameInputs} :
              Launch(2, a)
    \/ MainList(2)
    \/ MainDelete(2)
    \/ DeleteSave(2)

SpecStore == InitStore /\ [][NextStore]_vars

----------------------------------------------------------------------------
(* The prompt for the commands, on any text *)

QuirkInput == <<"a", ",", " ", "b", " ", ",", "c", ",">>

\* the texts typed at the prompt: every text of up to MaxInput characters
\* over a letter, a blank and a comma, and "a, b ,c,"
SplitInputs == SeqsUpTo({"a", " ", ","}, MaxInput) \cup {QuirkInput}

\* `cmdy run` with no config file: the current directory was chosen, the
\* name "a" was typed, and the prompt for the commands is on the screen
InitSplit ==
    /\ fs = [f \in {CONFIG_FILE, LOG_FILE, BACKUP_FILE} |-> NoFile]
    /\ launched = 1
    /\ fs0 = [p \in Procs |-> fs]
    /\ pc = [p \in Procs |-> IF p = 1 THEN "enter_commands" ELSE "idle"]
    /\ args = [p \in Procs |-> IF p = 1 THEN <<"cmdy", "run">> ELSE <<>>]
    /\ config_data = [p \in Procs |-> IF p = 1 THEN DefaultText ELSE <<>>]
    /\ config = [p \in Procs |-> EmptyConfig]
    /\ directory = [p \in Procs |-> IF p = 1 THEN CurrentDir ELSE <<>>]
    /\ command_set_name = [p \in Procs |-> IF p = 1 THEN NameA ELSE <<>>]
    /\ set = [p \in Procs |-> NoSet]
    /\ idx = [p \in Procs |-> 0]
    /\ child = [p \in Procs |-> "none"]
    /\ spinner = [p \in Procs |-> NoThreads]
    /\ out = [p \in Procs |->
                 IF p = 1 THEN <<Selected("directory", 0),
                                 Typed("Enter a new command set name", NameA),
                                 Line("Creating a new command set.")>>
                 ELSE <<>>]

NextSplit == \E c \in SplitInputs : EnterCommands(1, c)

SpecSplit == InitSplit /\ [][NextSplit]_vars

----------------------------------------------------------------------------
(* Properties *)

\* the failure notice of line 76 has been printed
Failed(p) == \E i \in DOMAIN out[p] : out[p][i].msg = "Command failed:"

\* the commands started so far, from the "Executing: ..." lines
Started(p) ==
    LET e == SelectSeq(out[p], LAMBDA l : l.msg = "Executing:")
    IN [i \in 1..Len(e) |-> e[i].arg]

\* invocation p is a `run` that has got past main
Running(p) == pc[p] \notin {"idle", "main"} /\ Len(args[p]) > 1 /\ args[p][2] = "run"

\* C1: when the foreground command at position k exits with a non-zero
\* status, execute_commands returns: the commands started are those at
\* positions 1..k and no others, the failure notice names the command at k,
\* and the log is as it was when the run began.
C1_AbortOnFailure ==
    \A p \in Procs : Failed(p) =>
        /\ pc[p] = "done"
        /\ idx[p] \in 1..Len(set[p].commands)
        /\ Started(p) = SubSeq(set[p].commands, 1, idx[p])
        /\ out[p][Len(out[p])].msg = "Command failed:"
        /\ out[p][Len(out[p])].arg = set[p].commands[idx[p]]
        /\ fs[LOG_FILE] = fs0[p][LOG_FILE]

\* a run stopped by a failure with commands left, and a log written before
C1_Witness ==
    \E p \in Procs :
        /\ Failed(p)
        /\ idx[p] < Len(set[p].commands)
        /\ fs[LOG_FILE].exists

\* C2: a run whose commands all completed has appended exactly one entry,
\* with the name of the set, to the log it found, and has started every
\* command of the set before; in every other state of a run the log is as the
\* run found it, so an entry means that the whole set ran.
C2_LogOnCompletion ==
    \A p \in Procs : Running(p) =>
        IF pc[p] = "done" /\ ~Failed(p)
        THEN /\ fs[LOG_FILE].exists
             /\ fs[LOG_FILE].data =
                    fs0[p][LOG_FILE].data \o <<LogEntry(CommandSet(command_set_name[p], <<>>))>>
             /\ set[p].name = command_set_name[p]
             /\ Started(p) = set[p].commands
             /\ idx[p] = Len(set[p].commands) + 1
        ELSE fs[LOG_FILE] = fs0[p][LOG_FILE]

\* a completed run of a set of two commands, one of them in bounded mode
C2_Witness ==
    \E p \in Procs :
        /\ Running(p) /\ pc[p] = "done" /\ ~Failed(p)
        /\ Len(set[p].commands) = 2
        /\ NpmRunDev \in {set[p].commands[i] : i \in 1..2}
        /\ Len(fs[LOG_FILE].data) = Len(fs0[p][LOG_FILE].data) + 1

\* C3: the spinner thread exists only while the main thread is in the
\* bounded mode of the command that spawned it (sleep, kill, send, join):
\* there is never more than one, and there is none when the runner is at the
\* head of the loop, about to start the next command or to log, nor once
\* execute_commands has returned.
C3_SpinnerJoined ==
    \A p \in Procs :
        /\ Cardinality(DOMAIN spinner[p]) <= 1
        /\ pc[p] \in {"sleep", "send", "join"} => DOMAIN spinner[p] = {idx[p]}
        /\ pc[p] \notin {"sleep", "send", "join"} => spinner[p] = NoThreads

\* the second "npm run dev" of one set: its window ended before the spinner
\* polled once, the stop signal was received, the join has not yet returned
C3_Witness ==
    \E p \in Procs :
        /\ pc[p] = "join"
        /\ idx[p] = 2
        /\ set[p].commands = <<NpmRunDev, NpmRunDev>>
        /\ spinner[p] = (2 :> Thread("finished", 0, 0))

\* C4: the failure notice never names "npm run dev", and the join that ends
\* the bounded mode always takes the runner to the next position, whatever
\* became of the subprocess; a run with such a command whose foreground
\* commands all succeeded has appended its log entry.
C4_NeverFailed ==
    /\ [](\A p \in Procs :
            /\ \A i \in DOMAIN out[p] :
                  out[p][i].msg = "Command failed:" => out[p][i].arg # NpmRunDev
            /\ (/\ Running(p) /\ pc[p] = "done"
                /\ \A k \in DOMAIN set[p].commands : set[p].commands[k] = NpmRunDev)
               => fs[LOG_FILE].data =
                      fs0[p][LOG_FILE].data \o <<LogEntry(CommandSet(command_set_name[p], <<>>))>>
            /\ (/\ Running(p) /\ pc[p] = "done" /\ ~Failed(p)
                /\ \E k \in DOMAIN set[p].commands : set[p].commands[k] = NpmRunDev)
               => /\ Started(p) = set[p].commands
                  /\ fs[LOG_FILE].data[Len(fs[LOG_FILE].data)].executed = set[p].name)
    /\ [][\A p \in Procs :
            (pc[p] \in {"sleep", "send", "join"} /\ pc'[p] \notin {pc[p], "panicked"}) =>
                /\ pc'[p] \in {"send", "join", "exec"}
                /\ pc'[p] = "exec" => idx'[p] = idx[p] + 1
                /\ ~Failed(p)']_vars

\* the subprocess had exited with an error before the window ended; the
\* kill and the stop signal are past and the join is about to return
C4_Witness ==
    \E p \in Procs :
        /\ Running(p) /\ pc[p] = "join"
        /\ child[p] = "exited_err"
        /\ set[p].commands = <<NpmRunDev, Ls>>
        /\ idx[p] = 1
        /\ spinner[p][1].st = "finished"
        /\ ~Failed(p)

\* the config that invocation p loaded
Loaded(p) == from_str(config_data[p]).val

\* invocation p has typed `text` at the prompt `prompt`
HasTyped(p, prompt, text) ==
    \E i \in DOMAIN out[p] :
        /\ out[p][i].msg = "input"
        /\ out[p][i].prompt = prompt
        /\ out[p][i].text = text

\* invocation p has chosen item number `item` in the menu `prompt`
HasSelected(p, prompt, item) ==
    \E i \in DOMAIN out[p] :
        /\ out[p][i].msg = "select"
        /\ out[p][i].prompt = prompt
        /\ out[p][i].item = item

DirTyped(p) == \E d \in DirInputs : HasTyped(p, "Enter the directory path", d)

CommandsTyped(p) == \E c \in CommandInputs : HasTyped(p, "Enter the commands to execute", c)

\* C5: once a name that an existing set has was typed at "Enter a new
\* command set name", the run does not ask for commands, keeps the command
\* sets in memory as loaded, leaves the config file as it was before the name
\* was typed, and executes the existing set: what it starts are that set's
\* commands, in order.
C5_TypedExistingName ==
    \A p \in Procs : \A n \in NameInputs :
        (Running(p) /\ HasTyped(p, "Enter a new command set name", n)) =>
            LET loaded == Loaded(p) IN
            HasSet(loaded, n) =>
                /\ pc[p] \in {"exec", "sleep", "send", "join", "done", "panicked"}
                /\ ~CommandsTyped(p)
                /\ config[p].command_sets = loaded.command_sets
                /\ fs[CONFIG_FILE] =
                      IF DirTyped(p) THEN File(to_string_pretty(
                             Config(Append(loaded.directories, directory[p]),
                                    loaded.command_sets)))
                      ELSE fs0[p][CONFIG_FILE]
                /\ set[p] = FindSet(loaded, n)
                /\ Started(p) = SubSeq(set[p].commands, 1, Len(Started(p)))

\* the name of the stored set was typed, and its two commands have run
C5_Witness ==
    \E p \in Procs :
        /\ Running(p) /\ pc[p] = "done"
        /\ HasTyped(p, "Enter a new command set name", NameA)
        /\ ~DirTyped(p)
        /\ Started(p) = <<NpmRunDev, Ls>>
        /\ fs[CONFIG_FILE] = File(to_string_pretty(StoredConfig))

\* invocation p is a `delete <name>` that has got past main
Deleting(p) ==
    pc[p] \notin {"idle", "main"} /\ Len(args[p]) > 2 /\ args[p][2] = "delete"

\* C6: delete_command with a name that no stored set has does not fail, and
\* what load_config returns afterwards, directories and command sets, is
\* what it returned before.
C6_DeleteAbsent ==
    \A p \in Procs :
        (/\ Deleting(p)
         /\ load_config(fs0[p]).ok
         /\ ~HasSet(load_config(fs0[p]).val, args[p][3]))
        => /\ pc[p] \in {"delete_save", "done"}
           /\ load_config(fs).ok
           /\ load_config(fs).val = load_config(fs0[p]).val
           /\ pc[p] = "done" => fs[CONFIG_FILE].exists

\* `delete b` has ended, with a set named a and two directories stored
C6_Witness ==
    \E p \in Procs :
        /\ Deleting(p) /\ pc[p] = "done"
        /\ args[p][3] = NameB
        /\ load_config(fs0[p]).ok
        /\ load_config(fs0[p]).val = StoredConfig

\* C7: the last item of the directory menu leads to the prompt for a path;
\* the path typed is the working directory and the last of the directories,
\* in memory and in what load_config returns from then on; and right after it
\* was typed, before a command set is chosen, the config file holds the
\* in-memory config.
C7_NewDirectory ==
    \A p \in Procs : Running(p) =>
        /\ \/ pc[p] = "enter_dir"
           \/ DirTyped(p)
           \/ ~HasSelected(p, "directory", Len(Loaded(p).directories) + 1)
        /\ DirTyped(p) =>
              /\ HasTyped(p, "Enter the directory path", directory[p])
              /\ pc[p] \notin {"select_dir", "enter_dir"}
              /\ config[p].directories = Append(Loaded(p).directories, directory[p])
              /\ LET stored == load_config(fs)
                 IN stored.ok /\ stored.val.directories = config[p].directories
              /\ pc[p] \in {"select_set", "enter_name"} =>
                    /\ fs[CONFIG_FILE] = File(to_string_pretty(config[p]))
                    /\ command_set_name[p] = <<>>
                    /\ set[p] = NoSet
                    /\ Started(p) = <<>>

\* item 3 of the menu over two stored directories, a path typed, and the
\* menu of command sets not yet answered
C7_Witness ==
    \E p \in Procs :
        /\ Running(p) /\ pc[p] = "select_set"
        /\ HasSelected(p, "directory", 3)
        /\ directory[p] = D2
        /\ load_config(fs).val.directories = <<D1, CurrentDir, D2>>

\* C8: after item 0 of the directory menu the working directory is the
\* current directory of the process, no path is asked for, and the
\* directories in memory and in the config file are those that were loaded.
C8_CurrentDirectory ==
    \A p \in Procs :
        (Running(p) /\ HasSelected(p, "directory", 0))
        => /\ directory[p] = CurrentDir
           /\ pc[p] \notin {"select_dir", "enter_dir"}
           /\ ~DirTyped(p)
           /\ config[p].directories = Loaded(p).directories
           /\ load_config(fs).val.directories = config[p].directories

\* item 0 over a stored list that holds the current directory in second
\* place, in a run that created a command set and so saved the config
C8_Witness ==
    \E p \in Procs :
        /\ Running(p) /\ HasSelected(p, "directory", 0)
        /\ Loaded(p).directories = <<D1, CurrentDir>>
        /\ CommandsTyped(p)
        /\ fs[CONFIG_FILE] # fs0[p][CONFIG_FILE]

UsageLine == Line("Usage: cmdy <command>. Use 'cmdy --help' for more details.")

UnknownLine == Line("Unknown command. Use 'cmdy --help' for available commands.")

\* invocation p is in the flow of run / delete_command / export_config
InRun(p) ==
    pc[p] \in {"select_dir", "enter_dir", "select_set", "enter_name",
               "enter_commands", "exec", "sleep", "send", "join", "done", "panicked"}

Added(p) ==
    Len(config[p].directories) + Len(config[p].command_sets)
        - Len(Loaded(p).directories) - Len(Loaded(p).command_sets)

Size(c) == Len(c.directories) + Len(c.command_sets)

\* C10: every save leaves in the config file the in-memory config of the
\* invocation that saves; so when two runs have loaded the same text and each
\* has added an entry and saved, the file holds the config of one of them,
\* with fewer entries than were loaded and added together: the other one's
\* addition is lost.
C10_LastWriterWins ==
    /\ [](\A p, q \in Procs :
            (/\ p # q /\ Running(p) /\ Running(q)
             /\ config_data[p] = config_data[q]
             /\ from_str(config_data[p]).ok
             /\ Added(p) >= 1 /\ Added(q) >= 1)
            => /\ load_config(fs).ok
               /\ load_config(fs).val \in {config[p], config[q]}
               /\ Size(load_config(fs).val) < Size(Loaded(p)) + Added(p) + Added(q))
    /\ [][\A p \in Procs :
            (pc[p] \in {"enter_dir", "enter_commands", "delete_save"} /\ pc'[p] # pc[p])
            => load_config(fs').ok /\ load_config(fs').val = config'[p]]_vars

\* two runs found no config; one created the set a, the other one the set b
\* and saved last: the file has b and not a
C10_Witness ==
    \E p, q \in Procs :
        /\ p # q /\ pc[p] = "exec" /\ pc[q] = "exec"
        /\ config_data[p] = DefaultText /\ config_data[q] = DefaultText
        /\ HasSet(config[p], NameA) /\ HasSet(config[q], NameB)
        /\ ~HasSet(load_config(fs).val, NameA)
        /\ HasSet(load_config(fs).val, NameB)

----------------------------------------------------------------------------
\* C11: a Config written by save_config is read back by load_config as the
\* same value: the load does not fail, and the directories, the command sets
\* and the commands of every set come back equal and in the same order.
C11_RoundTrip ==
    \* invocation 2, the first one started after the save, has loaded
    (pc[1] = "done" /\ launched = 1 /\ pc[2] \notin {"idle", "main"}) =>
        /\ pc[2] # "panicked"
        /\ from_str(config_data[2]).ok
        /\ Loaded(2) = config[1]
        /\ Arm(args[2]) = "list" => config[2] = config[1]

\* a Config with two directories and two command sets of the same name, one
\* of them with an empty command, was saved and listed
C11_Witness ==
    /\ pc[1] = "done"
    /\ launched = 1
    /\ pc[2] = "done"
    /\ Arm(args[2]) = "list"
    /\ config[2] = Config(<<D2, D1>>, <<CommandSet(NameA, <<NpmRunDev, <<>>>>),
                                       CommandSet(NameA, <<>>)>>)

----------------------------------------------------------------------------
\* C12: load_config with no config file gives the empty Config (no
\* directories, no command sets), does not fail, and leaves the file system
\* as it is: the config file is not created by the load.
C12_LoadWithoutFile ==
    [][\A p \in Procs :
          ( /\ pc[p] = "main"
            /\ pc'[p] # "main"
            /\ Arm(args[p]) \in {"run", "list", "delete", "export"}
            /\ ~fs[CONFIG_FILE].exists ) =>
          ( /\ pc'[p] # "panicked"
            /\ config'[p] = EmptyConfig
            /\ config'[p].directories = <<>> /\ config'[p].command_sets = <<>>
            /\ fs' = fs
            /\ ~fs'[CONFIG_FILE].exists )]_vars

\* run has loaded the empty Config and there is still no config file
C12_Witness ==
    /\ pc[1] = "select_dir"
    /\ ~fs[CONFIG_FILE].exists
    /\ ~fs0[1][CONFIG_FILE].exists
    /\ config[1] = EmptyConfig

----------------------------------------------------------------------------
\* the positions of the commas of a text
Commas(input) == {i \in DOMAIN input : input[i] = ","}

\* the position of the k-th comma; 0 for k = 0, one past the end when the
\* text has fewer than k commas
CommaAt(input, k) ==
    IF k = 0 THEN 0
    ELSE IF k > Cardinality(Commas(input)) THEN Len(input) + 1
    ELSE CHOOSE i \in Commas(input) : Cardinality({j \in Commas(input) : j <= i}) = k

\* the text between the (k-1)-th and the k-th comma
Segment(input, k) == SubSeq(input, CommaAt(input, k - 1) + 1, CommaAt(input, k) - 1)

\* t is seg without the blanks at its two ends
IsTrimmed(t, seg) ==
    \E i \in 1..(Len(seg) + 1), j \in 0..Len(seg) :
        /\ t = SubSeq(seg, i, j)
        /\ \A x \in 1..(i - 1) : IsWhitespace(seg[x])
        /\ \A x \in (j + 1)..Len(seg) : IsWhitespace(seg[x])
        /\ t # <<>> => ~IsWhitespace(t[1]) /\ ~IsWhitespace(t[Len(t)])

\* the text typed at the prompt for the commands
CommandsInput(p) ==
    CHOOSE c \in SplitInputs : HasTyped(p, "Enter the commands to execute", c)

\* C13: the commands of a new command set are the pieces of the typed text
\* between its commas, in order, each without the blanks at its ends, empty
\* pieces kept: (number of commas + 1) commands, and "a, b ,c," gives
\* "a", "b", "c", "".
C13_SplitAtCommas ==
    pc[1] = "exec" =>
        LET input == CommandsInput(1)
            cmds  == set[1].commands
        IN /\ Len(cmds) = Cardinality(Commas(input)) + 1
           /\ \A k \in 1..Len(cmds) : IsTrimmed(cmds[k], Segment(input, k))
           /\ input = QuirkInput => cmds = <<<<"a">>, <<"b">>, <<"c">>, <<>>>>
           /\ config[1].command_sets = <<CommandSet(NameA, cmds)>>

\* "a, b ,c," was typed and the set has its four commands, the last one empty
C13_Witness ==
    /\ pc[1] = "exec"
    /\ HasTyped(1, "Enter the commands to execute", QuirkInput)
    /\ Len(set[1].commands) = 4
    /\ set[1].commands[4] = <<>>

----------------------------------------------------------------------------
\* the panic of line 66 is on the terminal of invocation p
KillFailed(p) ==
    \E i \in DOMAIN out[p] :
        out[p][i].msg = "panic" /\ out[p][i].arg = "Failed to stop npm run dev"

\* C14, as the claim states it: the kill comes after the stop signal and the
\* join, so once the kill has been attempted (a success leads to "send", a
\* failure to the panic of line 66) the indicator has ended, and its last
\* line is the one above the panic message.
C14_AsClaimed ==
    \A p \in Procs :
        /\ pc[p] = "send" => idx[p] \notin DOMAIN spinner[p]
        /\ KillFailed(p) => out[p][Len(out[p]) - 1].msg = "Sync complete!"

\* C14, amended: spawn and start of the indicator, the window, then the kill,
\* and only after the kill the stop signal and the join.  The subprocess is
\* killed while the indicator still polls with no stop signal sent, and a
\* failing kill ends the invocation with the indicator still running.
C14_KillThenStop ==
    /\ [](\A p \in Procs :
            /\ pc[p] = "sleep" =>
                  /\ child[p] # "none"
                  /\ idx[p] \in DOMAIN spinner[p]
                  /\ spinner[p][idx[p]].st = "poll"
                  /\ spinner[p][idx[p]].inbox = 0
            /\ pc[p] = "send" =>
                  /\ child[p] \in {"killed", "exited_ok", "exited_err"}
                  /\ idx[p] \in DOMAIN spinner[p]
                  /\ spinner[p][idx[p]].st = "poll"
                  /\ spinner[p][idx[p]].inbox = 0
            /\ pc[p] = "join" =>
                  /\ child[p] \in {"killed", "exited_ok", "exited_err"}
                  /\ idx[p] \in DOMAIN spinner[p]
                  /\ \/ spinner[p][idx[p]].st = "poll" /\ spinner[p][idx[p]].inbox = 1
                     \/ spinner[p][idx[p]].st = "finished" /\ spinner[p][idx[p]].inbox = 0)
    /\ [][\A p \in Procs :
            /\ (pc'[p] = "sleep" /\ pc[p] # "sleep") =>
                  pc[p] = "exec" /\ child[p] = "none" /\ idx[p] \notin DOMAIN spinner[p]
            /\ (pc'[p] = "send" /\ pc[p] # "send") => pc[p] = "sleep"
            /\ (pc'[p] = "join" /\ pc[p] # "join") => pc[p] = "send"
            /\ (pc[p] = "join" /\ pc'[p] # "join") =>
                  pc'[p] = "exec" /\ spinner[p][idx[p]].st = "finished"
            /\ (KillFailed(p)' /\ ~KillFailed(p)) =>
                  /\ pc[p] = "sleep"
                  /\ spinner[p][idx[p]].st = "poll"
                  /\ spinner[p][idx[p]].inbox = 0
                  \* the line above the panic message: the command, or a glyph
                  /\ out'[p][Len(out'[p]) - 1].msg
                         \in {"Executing:", "Syncing Obsidian vault..."}]_vars

\* the subprocess has been killed and the indicator, which has shown a glyph,
\* still polls: no stop signal has been sent
C14_Witness ==
    /\ pc[1] = "send"
    /\ child[1] = "killed"
    /\ idx[1] \in DOMAIN spinner[1]
    /\ spinner[1][idx[1]] = Thread("poll", 1, 0)

----------------------------------------------------------------------------
\* C15: with no other invocation writing, run has the config file equal to
\* its in-memory config at every prompt, when execute_commands starts and
\* when the invocation has ended: a directory or a command set it has added
\* is saved in the step that adds it.  A new command set is in the file
\* before its first command starts and is still there when one of its
\* commands has failed.
C15_SavedBeforeUse ==
    \A p \in Procs :
        ( /\ Running(p)
          /\ \/ pc[p] \in {"select_dir", "enter_dir", "select_set", "enter_name",
                            "enter_commands", "done"}
             \/ pc[p] = "exec" /\ idx[p] = 1 ) =>
            LET loaded    == from_str(config_data[p])
                persisted == load_config(fs)
            IN loaded.ok =>
                /\ persisted.ok
                /\ persisted.val = config[p]
                /\ pc[p] \in {"exec", "done"} =>
                      /\ HasSet(persisted.val, set[p].name)
                      /\ FindSet(persisted.val, set[p].name) = set[p]
                /\ (CommandsTyped(p) /\ Failed(p)) =>
                      persisted.val.command_sets
                          = Append(loaded.val.command_sets, set[p])

\* a directory and a command set were added, the first command of the new
\* set has failed, and both additions are in the config file
C15_Witness ==
    /\ pc[1] = "done"
    /\ DirTyped(1)
    /\ CommandsTyped(1)
    /\ Failed(1)
    /\ Started(1) = <<Ls>>
    /\ load_config(fs).val = config[1]
    /\ Len(config[1].directories) = Len(Loaded(1).directories) + 1

----------------------------------------------------------------------------
\* C16: under a fair scheduler bounded mode comes to an end.  The sleep is
\* followed by the kill; after the kill the stop signal is sent, the spinner
\* thread receives it at its next poll and ends, the join returns and
\* execute_commands goes on with the next command.  The signal is sent once,
\* by the step from the send to the join, and the spinner lines are written
\* only between the spawn and the return of the join.
C16_BoundedModeEnds ==
    /\ \A p \in Procs : (pc[p] = "sleep") ~> (pc[p] \in {"send", "panicked"})
    /\ \A p \in Procs : (pc[p] \in {"send", "join"}) ~> (pc[p] = "exec")
    /\ [][\A p \in Procs :
            /\ \A t \in DOMAIN spinner[p] \cap DOMAIN spinner'[p] :
                  spinner'[p][t].inbox > spinner[p][t].inbox =>
                      /\ pc[p] = "send" /\ pc'[p] = "join" /\ t = idx[p]
                      /\ spinner[p][t].inbox = 0 /\ spinner'[p][t].inbox = 1
            /\ ( /\ out'[p] # out[p]
                 /\ out'[p] # <<>>
                 /\ out'[p][Len(out'[p])].msg
                        \in {"Syncing Obsidian vault...", "Sync complete!"} ) =>
                  pc[p] \in {"sleep", "send", "join"} /\ pc'[p] = pc[p]]_vars

\* bounded mode is over for the first command: the spinner has written its
\* last line, the join has returned, the next command is up
C16_Witness ==
    /\ pc[1] = "exec"
    /\ idx[1] = 2
    /\ set[1].commands[1] = NpmRunDev
    /\ spinner[1] = NoThreads
    /\ Len(out[1]) >= 2
    /\ out[1][Len(out[1])] = Line("npm run dev stopped after pulling the vault.")
    /\ out[1][Len(out[1]) - 1] = Line("Sync complete!")

----------------------------------------------------------------------------
\* C17: delete_command(name) leaves in the config file the command sets it
\* found there without those named `name`: every such entry is gone, also
\* when the name occurs twice, the others are in their order with their
\* commands, and the directories are as they were.
C17_DeleteRemovesNamed ==
    (pc[1] = "done" /\ pc[2] = "done" /\ Arm(args[2]) = "delete") =>
        LET name == args[2][3]
            persisted == load_config(fs)
        IN /\ persisted.ok
           /\ persisted.val.directories = config[1].directories
           /\ persisted.val.command_sets
                 = SelectSeq(config[1].command_sets, LAMBDA cs : cs.name # name)
           /\ \A i \in DOMAIN persisted.val.command_sets :
                 persisted.val.command_sets[i].name # name
           /\ out[2] = <<LineArg("Deleted command set:", name)>>

\* the file held two sets named "a" and two directories; `delete a` has left
\* the directories and no set
C17_Witness ==
    /\ pc[1] = "done"
    /\ pc[2] = "done"
    /\ args[2] = <<"cmdy", "delete", NameA>>
    /\ config[1] = Config(<<D1, D2>>, <<CommandSet(NameA, <<Ls>>), CommandSet(NameA, <<>>)>>)
    /\ load_config(fs).val = Config(<<D1, D2>>, <<>>)

----------------------------------------------------------------------------
----------------------------------------------------------------------------
\* no entry of the sequence occurs twice
NoRepeat(seq) == \A i, j \in DOMAIN seq : i # j => seq[i] # seq[j]

\* C19: the config file starts with command sets of pairwise distinct names,
\* and in every state that invocations of run and delete (list and export as
\* well), one after the other or overlapping, can reach, the command sets in
\* the file still have pairwise distinct names; so has every in-memory config.
C19_DistinctNames ==
    /\ load_config(fs).ok => NoRepeat(Names(load_config(fs).val))
    /\ \A p \in Procs : NoRepeat(Names(config[p]))

\* invocation 1 has added the set "b" to the stored set "a"; invocation 2,
\* which loaded after that, typed the name "b" and was given the stored set
C19_Witness ==
    /\ pc[1] = "exec"
    /\ pc[2] = "exec"
    /\ CommandsTyped(1)
    /\ HasTyped(2, "Enter a new command set name", NameB)
    /\ ~CommandsTyped(2)
    /\ Names(load_config(fs).val) = <<NameA, NameB>>

----------------------------------------------------------------------------
\* the item invocation p chose in the directory menu is s
ChoseDirectory(p, s) == HasSelected(p, "directory", s)

\* C20: with N stored directories the directory menu of run accepts every
\* item s of 0..N+1, and the step that follows the choice is the branch of
\* s: 0 is the current directory, N+1 leads to the prompt for a new
\* directory, and s with 1 <= s <= N gives the stored directory number s
\* (position s-1 counted from 0), with no access out of range, the
\* in-memory config untouched and nothing saved.
C20_DirectoryBranches ==
    /\ [](\A p \in Procs :
            pc[p] = "select_dir" =>
                /\ config[p] = Loaded(p)
                /\ \A s \in 0..(Len(config[p].directories) + 1) :
                      ENABLED SelectDirectory(p, s))
    /\ [][\A p \in Procs :
            (pc[p] = "select_dir" /\ pc'[p] # "select_dir") =>
                LET N == Len(config[p].directories) IN
                \E s \in 0..(N + 1) :
                    /\ out'[p] = Append(out[p], Selected("directory", s))
                    /\ config'[p] = config[p]
                    /\ fs' = fs
                    /\ s = 0 =>
                          /\ directory'[p] = CurrentDir
                          /\ pc'[p] \in {"select_set", "enter_name"}
                    /\ s = N + 1 =>
                          /\ directory'[p] = directory[p]
                          /\ pc'[p] = "enter_dir"
                    /\ (1 <= s /\ s <= N) =>
                          /\ directory'[p] = config[p].directories[s]
                          /\ pc'[p] \in {"select_set", "enter_name"}]_vars

\* two directories are stored and the last of them, item 2, was chosen
C20_Witness ==
    /\ pc[1] = "exec"
    /\ Len(Loaded(1).directories) = 2
    /\ ChoseDirectory(1, 2)
    /\ directory[1] = Loaded(1).directories[2]
    /\ fs = fs0[1]

====
